---------------------------- MODULE Spec2Model ----------------------------
(***************************************************************************)
(* Model of mods_deploy: generation of per-controller IOC .cfg files from   *)
(* happi device records (src/utils.py), driven by the dispatcher            *)
(* make_tile_configs (src/configs.py, src/mods_deploy.py).                  *)
(*                                                                         *)
(* A device record is a function from field names to strings; a field that  *)
(* is absent or not a string is None.  A schema is a function from the      *)
(* required keys to a constraint; validation returns the record restricted  *)
(* to the schema's keys (ignore_extra_keys) with the Use() coercions        *)
(* applied.  Python's set iteration order over strings is not fixed, so the *)
(* controller groups of an aggregated type are visited in any order.        *)
(*                                                                         *)
(* The functions are modelled as they are written.  MakeEk9000Config       *)
(* (utils.py 423-498) is not: its body does not parse, and no dev_map      *)
(* names it.  The variable calls logs every call of a Make*Config function *)
(* with what it did; a written call carries the file's name and the        *)
(* payload handed to template.render (for a one-file-per-device type, the  *)
(* list of the one device).                                                *)
(***************************************************************************)
EXTENDS Integers, Sequences, FiniteSets, TLC

VARIABLES script, tile, pc, results, idx, todo, calls, err, fs, first, location

vars == <<script, tile, pc, results, idx, todo, calls, err, fs, first, location>>

(***************************************************************************)
(* Bounds of the model.                                                    *)
(***************************************************************************)
\* longest list of records the database query returns
MaxDevs == 3

\* longest location string handed to make_Makefile
MaxLocLen == 2

(***************************************************************************)
(* Strings and the str methods the schemas use.                            *)
(***************************************************************************)
None == "<None>"

\* str.lower on the strings of the model
Lower(s) ==
  CASE s = "A" -> "a"
    [] s = "B" -> "b"
    [] s = "YES" -> "yes"
    [] s = "ELL6" -> "ell6"
    [] OTHER -> s

\* str.upper on the strings of the model
Upper(s) ==
  CASE s = "a" -> "A"
    [] s = "b" -> "B"
    [] s = "c" -> "C"
    [] s = "yes" -> "YES"
    [] s = "ell6" -> "ELL6"
    [] OTHER -> s

(***************************************************************************)
(* Schemas (utils.py).                                                     *)
(***************************************************************************)
ArchValues ==
  {"linux-x86", "linux-x86_64", "rhel5-x86_64", "rhel7-x86_64", "rhel7-gcc494-x86_64"}

EllChannelValues ==
  {"1", "2", "3", "4", "5", "6", "7", "8", "9", "a", "b", "c", "d", "e", "f"}

EllModelValues == {"ell6", "ell9", "ell14", "ell18", "ell20"}

EvrChannelValues == {"0", "1", "2", "3", "4", "5", "6", "7", "8", "9", "A", "B"}

\* does value v satisfy constraint c (And(str, ...))
Accepts(c, v) ==
  /\ v # None
  /\ CASE c = "str" -> TRUE
       [] c = "arch" -> v \in ArchValues
       [] c = "ell_channel" -> Lower(v) \in EllChannelValues
       [] c = "ell_model" -> Lower(v) \in EllModelValues
       [] c = "use_evr" -> Lower(v) \in {"yes", "no"}
       [] c = "evr_channel" -> Upper(v) \in EvrChannelValues

\* the value validation returns for v: only Use() changes it
Coerce(c, v) ==
  CASE c = "use_evr" -> Lower(v)
    [] c = "evr_channel" -> Upper(v)
    [] OTHER -> v

StrKeys(keys) == [k \in keys |-> "str"]

base_ioc_schema ==
  ("ioc_arch" :> "arch") @@ StrKeys({"ioc_engineer", "ioc_release", "ioc_location"})

ell_schema ==
  ("ioc_channel" :> "ell_channel") @@ ("ioc_model" :> "ell_model")
    @@ StrKeys({"prefix", "ioc_serial", "ioc_base", "ioc_alias", "ioc_name"})
    @@ base_ioc_schema

EvrKeys == ("ioc_use_evr" :> "use_evr") @@ ("ioc_evr_channel" :> "evr_channel")

qmini_schema ==
  EvrKeys @@ StrKeys({"prefix", "ioc_serial", "ioc_name"}) @@ base_ioc_schema

basler_schema ==
  EvrKeys
    @@ StrKeys({"prefix", "ioc_name", "ioc_cam_model", "ioc_ip", "ioc_net_if",
                "ioc_net_if_num", "ioc_http_port"})
    @@ base_ioc_schema

thorlabs_wfs_schema ==
  EvrKeys
    @@ StrKeys({"prefix", "ioc_name", "ioc_model", "ioc_id_num", "ioc_lenslet_pitch"})
    @@ base_ioc_schema

smaract_schema ==
  StrKeys({"prefix", "ioc_ip", "ioc_base", "ioc_name", "ioc_channel", "ioc_alias", "type"})
    @@ base_ioc_schema

smaract_tt_schema ==
  StrKeys({"prefix", "ioc_ip", "ioc_base", "ioc_name", "ioc_tilt_channel",
           "ioc_tip_channel", "ioc_tilt_suffix", "ioc_tip_suffix", "ioc_alias", "type"})
    @@ base_ioc_schema

\* Schema.validate raises (FALSE) or returns
IsValid(schema, md) == \A k \in DOMAIN schema : Accepts(schema[k], md[k])

\* what Schema.validate returns for a record it accepts
Validated(schema, md) == [k \in DOMAIN schema |-> Coerce(schema[k], md[k])]

(***************************************************************************)
(* Device records: what client.search hands to the dispatcher.             *)
(***************************************************************************)
Fields ==
  {"name", "ioc_type"}
    \cup DOMAIN ell_schema \cup DOMAIN qmini_schema \cup DOMAIN basler_schema
    \cup DOMAIN thorlabs_wfs_schema \cup DOMAIN smaract_schema
    \cup DOMAIN smaract_tt_schema

\* a complete, schema-valid single-channel record
BaseDev ==
  [f \in Fields |->
     CASE f = "ioc_arch" -> "linux-x86_64"
       [] f = "ioc_model" -> "ell6"
       [] f = "ioc_use_evr" -> "yes"
       [] f = "ioc_evr_channel" -> "0"
       [] f = "ioc_release" -> "R1"
       [] f = "ioc_base" -> "IOC1"
       [] f = "ioc_name" -> "dev1"
       [] f = "ioc_channel" -> "1"
       [] f = "ioc_alias" -> "al1"
       [] f = "ioc_serial" -> "S1"
       [] f = "ioc_ip" -> "ip1"
       [] f \in {"ioc_tip_channel", "ioc_tilt_channel"} -> None
       [] OTHER -> "x"]

Dev(ioc_type, type, name, over) ==
  over @@ ("ioc_type" :> ioc_type) @@ ("type" :> type) @@ ("name" :> name) @@ BaseDev

Ell(name, over) == Dev("Elliptec", "pcdsdevices.Elliptec", name, over)

ElliptecDevs ==
  { Ell("e1", "ioc_channel" :> "1"),
    Ell("e2", ("ioc_channel" :> "a") @@ ("ioc_alias" :> "al2")),
    Ell("e3", ("ioc_channel" :> "1") @@ ("ioc_alias" :> "al2")),
    Ell("e4", ("ioc_channel" :> "a") @@ ("ioc_release" :> "R2")),
    Ell("e5", ("ioc_serial" :> "S2") @@ ("ioc_name" :> "dev2")),
    Ell("e6", "ioc_channel" :> "x"),
    Ell("e7", "ioc_channel" :> "A"),
    Ell("e8", ("ioc_channel" :> "a") @@ ("ioc_base" :> "IOC2")),
    Ell("e9", ("ioc_channel" :> "a") @@ ("ioc_arch" :> "rhel7-x86_64")),
    Ell("e10", ("ioc_channel" :> "a") @@ ("ioc_name" :> "dev2")) }

QminiDevs ==
  { Dev("Qmini", "pcdsdevices.Qmini", "q1",
        ("ioc_name" :> "qm1") @@ ("ioc_use_evr" :> "YES") @@ ("ioc_evr_channel" :> "b")),
    Dev("Qmini", "pcdsdevices.Qmini", "q2",
        ("ioc_name" :> "qm2") @@ ("ioc_use_evr" :> "maybe")) }

BaslerDevs ==
  { Dev("BaslerGigE", "pcdsdevices.LasBasler", "b1", "ioc_name" :> "cam1"),
    Dev("BaslerGigE", "pcdsdevices.LasBasler", "b2",
        ("ioc_name" :> "cam2") @@ ("ioc_ip" :> None)) }

ThorlabsWfsDevs ==
  { Dev("ThorlabsWfs40", "pcdsdevices.ThorlabsWfs40", "w1", "ioc_name" :> "wfs1"),
    Dev("ThorlabsWfs40", "pcdsdevices.ThorlabsWfs40", "w2",
        ("ioc_name" :> "wfs2") @@ ("ioc_evr_channel" :> "c")) }

Sma(type, name, over) == Dev("SmarAct", type, name, ("ioc_name" :> "sm1") @@ over)

SmarActDevs ==
  { Sma("pcdsdevices.SmarActMotor", "m1", "ioc_channel" :> "1"),
    Sma("pcdsdevices.SmarActMotor", "m2",
        ("ioc_channel" :> "2") @@ ("ioc_release" :> "R2")),
    Sma("pcdsdevices.SmarActTipTilt", "t1",
        ("ioc_channel" :> None) @@ ("ioc_tip_channel" :> "1")
          @@ ("ioc_tilt_channel" :> "2")),
    Sma("pcdsdevices.SmarActMotor", "m3",
        ("ioc_ip" :> "ip2") @@ ("ioc_name" :> "sm2")),
    Sma("SmarActMotor", "m4", "ioc_channel" :> "3"),
    Sma("pcdsdevices.SmarActMotor", "m5",
        ("ioc_channel" :> "4") @@ ("ioc_alias" :> None)) }

Devices == ElliptecDevs \cup QminiDevs \cup BaslerDevs \cup ThorlabsWfsDevs \cup SmarActDevs

\* the lists a query may return
Inputs == UNION { [1..n -> Devices] : n \in 0..MaxDevs }

(***************************************************************************)
(* Helpers on lists and sets.                                              *)
(***************************************************************************)
Range(s) == { s[i] : i \in DOMAIN s }

\* len(xs) > len(set(xs))
HasDuplicates(xs) == Len(xs) > Cardinality(Range(xs))

\* [d[field] for d in ds]
Column(ds, field) == [i \in DOMAIN ds |-> ds[i][field]]

\* what a call of one of the Make*Config functions did
Outcome(kind, detail, filename, payload) ==
  [kind |-> kind, detail |-> detail, filename |-> filename, payload |-> payload]

Raised(o) == o.kind \in {"duplicate", "field"}

\* common without its last field
common_WithoutName == <<"ioc_release", "ioc_base", "ioc_arch">>

\* the four controller-wide fields, in the order they are compared
common == <<"ioc_release", "ioc_base", "ioc_arch", "ioc_name">>

\* the fields of common on which the validated records disagree
Disagreeing(valid) ==
  { i \in DOMAIN common : Cardinality(Range(Column(valid, common[i]))) > 1 }

Min(S) == CHOOSE m \in S : \A n \in S : m <= n

(***************************************************************************)
(* Elliptec: one file per controller serial number.                        *)
(***************************************************************************)
RECURSIVE EllValid_StopAtInvalid(_, _)
\* EllValid with the try around the loop: the first rejected record ends it
EllValid_StopAtInvalid(devices, serial) ==
  IF devices = <<>> THEN <<>>
  ELSE LET device == Head(devices) IN
       IF device["ioc_serial"] # serial
       THEN EllValid_StopAtInvalid(Tail(devices), serial)
       ELSE IF IsValid(ell_schema, device)
       THEN <<Validated(ell_schema, device)>>
              \o EllValid_StopAtInvalid(Tail(devices), serial)
       ELSE <<>>

RECURSIVE EllValid(_, _)
\* the list valid after the loop over the devices of one serial
EllValid(devices, serial) ==
  IF devices = <<>> THEN <<>>
  ELSE LET device == Head(devices)
           rest == EllValid(Tail(devices), serial)
       IN  IF device["ioc_serial"] = serial /\ IsValid(ell_schema, device)
           THEN <<Validated(ell_schema, device)>> \o rest
           ELSE rest

\* the channels checked for duplicates
EllChannels(valid) == Column(valid, "ioc_channel")

\* the devs handed to template.render
EllPayload(devices, serial) == devices

\* MakeElliptecConfig without its check for duplicates
MakeElliptecConfig_NoDuplicateCheck(devices, serial) ==
  LET valid == EllValid(devices, serial) IN
  IF Len(valid) = 0 THEN Outcome("empty", "", "", <<>>)
  ELSE IF Disagreeing(valid) # {}
  THEN Outcome("field", common[Min(Disagreeing(valid))], "", <<>>)
  ELSE Outcome("written", "", valid[1]["ioc_name"] \o ".cfg",
               EllPayload(devices, serial))

MakeElliptecConfig(devices, serial) ==
  LET valid == EllValid(devices, serial) IN
  IF Len(valid) = 0 THEN Outcome("empty", "", "", <<>>)
  ELSE IF HasDuplicates(EllChannels(valid))
  THEN Outcome("duplicate", serial, "", <<>>)
  ELSE IF Disagreeing(valid) # {}
  THEN Outcome("field", common[Min(Disagreeing(valid))], "", <<>>)
  ELSE Outcome("written", "", valid[1]["ioc_name"] \o ".cfg",
               EllPayload(devices, serial))

\* set(serials)
EllSerials(devices) == Range(Column(devices, "ioc_serial"))

(***************************************************************************)
(* SmarAct: one file per controller ip; two device subtypes.               *)
(***************************************************************************)
RECURSIVE SmarActValid(_, _)
SmarActValid(devices, ip) ==
  IF devices = <<>> THEN <<>>
  ELSE LET device == Head(devices)
           rest == SmarActValid(Tail(devices), ip)
       IN  IF device["ioc_ip"] # ip THEN rest
           ELSE IF device["type"] = "pcdsdevices.SmarActMotor"
           THEN IF IsValid(smaract_schema, device)
                THEN <<Validated(smaract_schema, device)>> \o rest
                ELSE rest
           ELSE IF device["type"] = "pcdsdevices.SmarActTipTilt"
           THEN IF IsValid(smaract_tt_schema, device)
                THEN <<Validated(smaract_tt_schema, device)>> \o rest
                ELSE rest
           ELSE rest

\* [d[field] for d in valid if d['type'] == type]
ColumnOfType(valid, field, type) ==
  Column(SelectSeq(valid, LAMBDA d : d["type"] = type), field)

\* the channels checked for duplicates
SmarActChannels(valid) ==
  ColumnOfType(valid, "ioc_channel", "SmarActMotor")
    \o ColumnOfType(valid, "ioc_tip_channel", "SmarActTipTilt")
    \o ColumnOfType(valid, "ioc_tilt_channel", "SmarActTipTilt")

\* the devs handed to template.render
SmarActPayload(devices, ip) == devices

\* MakeSmarActConfig lacking the return on an empty list of valid records
MakeSmarActConfig_NoEmptyCheck(devices, ip) ==
  LET valid == SmarActValid(devices, ip) IN
  IF HasDuplicates(SmarActChannels(valid))
  THEN Outcome("duplicate", ip, "", <<>>)
  ELSE IF Disagreeing(valid) # {}
  THEN Outcome("field", common[Min(Disagreeing(valid))], "", <<>>)
  ELSE Outcome("written", "", ".cfg", SmarActPayload(devices, ip))

MakeSmarActConfig(devices, ip) ==
  LET valid == SmarActValid(devices, ip) IN
  IF Len(valid) = 0 THEN Outcome("empty", "", "", <<>>)
  ELSE IF HasDuplicates(SmarActChannels(valid))
  THEN Outcome("duplicate", ip, "", <<>>)
  ELSE IF Disagreeing(valid) # {}
  THEN Outcome("field", common[Min(Disagreeing(valid))], "", <<>>)
  ELSE Outcome("written", "", valid[1]["ioc_name"] \o ".cfg",
               SmarActPayload(devices, ip))

\* set(ips)
SmarActIps(devices) == Range(Column(devices, "ioc_ip"))

(***************************************************************************)
(* Qmini, Basler, Thorlabs WFS: one file per device.                       *)
(***************************************************************************)
\* the body shared by MakeQminiConfig, MakeBaslerConfig, MakeThorlabsWfsConfig
MakeSingleConfig(schema, device) ==
  IF ~IsValid(schema, device) THEN Outcome("rejected", "", "", <<>>)
  ELSE Outcome("written", "", device["ioc_name"] \o ".cfg", <<device>>)

MakeQminiConfig(device) == MakeSingleConfig(qmini_schema, device)

MakeBaslerConfig(device) == MakeSingleConfig(basler_schema, device)

MakeThorlabsWfsConfig(device) == MakeSingleConfig(thorlabs_wfs_schema, device)

\* one entry of the call log
Call(fn, key, o) ==
  [fn |-> fn, key |-> key, kind |-> o.kind, detail |-> o.detail,
   filename |-> o.filename, payload |-> o.payload]

\* the calls of the loop "for device in devices", in order
MakeQminiConfigs(devices) ==
  [i \in DOMAIN devices |->
     Call("MakeQminiConfig", devices[i]["name"], MakeQminiConfig(devices[i]))]

MakeBaslerConfigs(devices) ==
  [i \in DOMAIN devices |->
     Call("MakeBaslerConfig", devices[i]["name"], MakeBaslerConfig(devices[i]))]

MakeThorlabsWfsConfigs(devices) ==
  [i \in DOMAIN devices |->
     Call("MakeThorlabsWfsConfig", devices[i]["name"],
          MakeThorlabsWfsConfig(devices[i]))]

(***************************************************************************)
(* The dispatcher make_tile_configs of configs.py.                         *)
(***************************************************************************)
\* the tiles make_tile_configs accepts
Tiles == {"lm1k4_com"}

\* the tiles a caller may ask for
TileArgs == {"lm1k4_com", "lm2k2"}

\* dev_map.keys(), in insertion order
dev_map == <<"Elliptec", "Qmini", "BaslerGigE", "ThorlabsWfs40", "SmarAct">>

\* [result for result in results if dev == result['ioc_type']]
DevsOfType(rs, dev) == SelectSeq(rs, LAMBDA result : result["ioc_type"] = dev)

\* the devs of the iteration the loop is in
devs == DevsOfType(results, dev_map[idx])

\* the loop goes to its next key, or ends
NextKey(n) ==
  /\ idx' = idx + 1
  /\ pc' = IF idx = n THEN "done" ELSE "loop"

InLoop(dev) == script = "configs" /\ pc = "loop" /\ dev_map[idx] = dev

\* the tile is not in the list: raise ValueError
Unrecognized ==
  /\ pc = "start"
  /\ tile \notin Tiles
  /\ pc' = "raised"
  /\ err' = "ValueError: Unrecognized TILE"
  /\ UNCHANGED <<script, tile, results, idx, todo, calls, fs, first, location>>

\* client.search(location_group=tile)
Search ==
  /\ pc = "start"
  /\ tile \in Tiles
  /\ \E rs \in Inputs : results' = rs
  /\ idx' = 1
  /\ pc' = "loop"
  /\ UNCHANGED <<script, tile, todo, calls, err, fs, first, location>>

\* no device of the type: "Skipping device type"
Skip ==
  /\ script = "configs"
  /\ pc = "loop"
  /\ Len(devs) = 0
  /\ NextKey(Len(dev_map))
  /\ UNCHANGED <<script, tile, results, todo, calls, err, fs, first, location>>

\* MakeElliptecConfigs up to its loop over set(serials)
ElliptecConfigs ==
  /\ InLoop("Elliptec")
  /\ Len(devs) > 0
  /\ todo' = EllSerials(devs)
  /\ pc' = "serials"
  /\ UNCHANGED <<script, tile, results, idx, calls, err, fs, first, location>>

\* one iteration of the loop of an aggregated type: the call's outcome is
\* logged; an exception leaves the dispatcher, the last iteration ends the type
GroupStep(fn, key, o) ==
  /\ calls' = Append(calls, Call(fn, key, o))
  /\ todo' = todo \ {key}
  /\ IF Raised(o)
     THEN /\ pc' = "raised"
          /\ err' = "ValueError: " \o o.kind
          /\ idx' = idx
     ELSE /\ err' = err
          /\ IF todo = {key}
             THEN NextKey(Len(dev_map))
             ELSE pc' = pc /\ idx' = idx
  /\ UNCHANGED <<script, tile, results, fs, first, location>>

\* one iteration of "for serial in set(serials)"
ElliptecConfig ==
  /\ pc = "serials"
  /\ \E serial \in todo :
       GroupStep("MakeElliptecConfig", serial, MakeElliptecConfig(devs, serial))

\* MakeSmarActConfigs up to its loop over set(ips)
SmarActConfigs ==
  /\ InLoop("SmarAct")
  /\ Len(devs) > 0
  /\ todo' = SmarActIps(devs)
  /\ pc' = "ips"
  /\ UNCHANGED <<script, tile, results, idx, calls, err, fs, first, location>>

\* one iteration of "for ip in set(ips)"
SmarActConfig ==
  /\ pc = "ips"
  /\ \E ip \in todo :
       GroupStep("MakeSmarActConfig", ip, MakeSmarActConfig(devs, ip))

\* a one-file-per-device type: its whole loop
SinglesStep(log) ==
  /\ Len(devs) > 0
  /\ calls' = calls \o log
  /\ NextKey(Len(dev_map))
  /\ UNCHANGED <<script, tile, results, todo, err, fs, first, location>>

QminiConfigs == InLoop("Qmini") /\ SinglesStep(MakeQminiConfigs(devs))

BaslerConfigs == InLoop("BaslerGigE") /\ SinglesStep(MakeBaslerConfigs(devs))

ThorlabsWfsConfigs ==
  InLoop("ThorlabsWfs40") /\ SinglesStep(MakeThorlabsWfsConfigs(devs))

\* make_tile_configs(tile, directory, dbpath) of configs.py
make_tile_configs ==
  \/ Unrecognized
  \/ Search
  \/ Skip
  \/ ElliptecConfigs
  \/ ElliptecConfig
  \/ QminiConfigs
  \/ BaslerConfigs
  \/ ThorlabsWfsConfigs
  \/ SmarActConfigs
  \/ SmarActConfig

(***************************************************************************)
(* The dispatcher make_tile_configs of mods_deploy.py.  It calls           *)
(* make_ell_configs and make_qmini_configs, which utils.py does not        *)
(* define: they follow the design's pipeline (group, validate, check the   *)
(* survivors, one file per payload; a conflict leaves the type without     *)
(* output).                                                                *)
(***************************************************************************)
\* dev_map.keys() of mods_deploy.py, in insertion order
mods_dev_map == <<"pcdsdevices.Elliptec", "pcdsdevices.Qmini">>

\* [result for result in results if result['type'] == dev]
DevsOfContainer(rs, dev) == SelectSeq(rs, LAMBDA result : result["type"] = dev)

\* the devs of the iteration the loop of mods_deploy.py is in
mods_devs == DevsOfContainer(results, mods_dev_map[idx])

\* the member records of one controller
Members(devices, serial) == SelectSeq(devices, LAMBDA d : d["ioc_serial"] = serial)

\* one controller group of make_ell_configs
EllGroup(devices, serial) ==
  LET o == MakeElliptecConfig(devices, serial) IN
  IF o.kind = "written"
  THEN Outcome("written", "", o.filename, Members(devices, serial))
  ELSE o

RECURSIVE EllGroups(_, _, _)
\* the groups of make_ell_configs, in the order their serials first appear
EllGroups(devices, i, seen) ==
  IF i > Len(devices) THEN <<>>
  ELSE LET serial == devices[i]["ioc_serial"] IN
       IF serial \in seen THEN EllGroups(devices, i + 1, seen)
       ELSE <<Call("make_ell_configs", serial, EllGroup(devices, serial))>>
              \o EllGroups(devices, i + 1, seen \cup {serial})

\* make_ell_configs(devs, directory): the conflicts alone, if there is one
make_ell_configs(devices) ==
  LET groups == EllGroups(devices, 1, {})
      conflicts == SelectSeq(groups, Raised)
  IN  IF conflicts # <<>> THEN <<conflicts[1]>> ELSE groups

\* make_qmini_configs(devs, directory)
make_qmini_configs(devices) == MakeQminiConfigs(devices)

\* func = dev_map[devs[0]['type']] with no device of the type
ModsIndexError ==
  /\ script = "mods_deploy"
  /\ pc = "loop"
  /\ Len(mods_devs) = 0
  /\ pc' = "raised"
  /\ err' = "IndexError"
  /\ UNCHANGED <<script, tile, results, idx, todo, calls, fs, first, location>>

\* func(devs, directory): the whole call
ModsCall(dev, log) ==
  /\ script = "mods_deploy"
  /\ pc = "loop"
  /\ mods_dev_map[idx] = dev
  /\ Len(mods_devs) > 0
  /\ calls' = calls \o log
  /\ IF \E i \in DOMAIN log : Raised(log[i])
     THEN pc' = "raised" /\ err' = "ValueError: conflict" /\ idx' = idx
     ELSE err' = err /\ NextKey(Len(mods_dev_map))
  /\ UNCHANGED <<script, tile, results, todo, fs, first, location>>

ModsEllConfigs == ModsCall("pcdsdevices.Elliptec", make_ell_configs(mods_devs))

ModsQminiConfigs == ModsCall("pcdsdevices.Qmini", make_qmini_configs(mods_devs))

\* make_tile_configs(tile, directory, dbpath) of mods_deploy.py
mods_make_tile_configs ==
  \/ ModsIndexError
  \/ ModsEllConfigs
  \/ ModsQminiConfigs

(***************************************************************************)
(* make_Makefile (utils.py).  A string is the sequence of its characters;  *)
(* the file system is a function from the paths of the files that exist to *)
(* their lines.                                                            *)
(***************************************************************************)
\* the characters of a location: the separator and any other character
Chars == {"/", "d"}

\* the locations make_Makefile is called with
Locations == UNION { [1..n -> Chars] : n \in 0..MaxLocLen }

RECURSIVE StripSlashes(_)
\* while(location.endswith('/')): location = location[:-1]
StripSlashes(loc) ==
  IF Len(loc) > 0 /\ loc[Len(loc)] = "/"
  THEN StripSlashes(SubSeq(loc, 1, Len(loc) - 1))
  ELSE loc

\* location+filename
MakefilePath(loc) == StripSlashes(loc) \o <<"/", "Makefile">>

RECURSIVE Resolve(_)
\* the file a path names: the system reads a run of separators as one
Resolve(path) ==
  IF Len(path) < 2 THEN path
  ELSE IF path[1] = "/" /\ path[2] = "/" THEN Resolve(Tail(path))
  ELSE <<path[1]>> \o Resolve(Tail(path))

\* os.path.isfile(path)
isfile(files, path) == Resolve(path) \in DOMAIN files

\* the three lines make_Makefile writes
MakefileText ==
  << "# SLAC PCDS Makefile for building templated IOC instances",
     "IOC_CFG  += $(wildcard *.cfg)",
     "include /reg/g/pcds/controls/macro/RULES_EXPAND" >>

\* a Makefile somebody else wrote
OtherText == <<"all:">>

\* make_Makefile without its test for an existing file
make_Makefile_Overwrite(files, loc) ==
  (Resolve(MakefilePath(loc)) :> MakefileText) @@ files

\* the files after make_Makefile(location)
make_Makefile(files, loc) ==
  IF isfile(files, MakefilePath(loc))
  THEN files
  ELSE (Resolve(MakefilePath(loc)) :> MakefileText) @@ files

NoFiles == [p \in {} |-> <<>>]

\* what the first call for a Makefile found and left, kept to compare with
FirstCall(files, loc) ==
  LET p == Resolve(MakefilePath(loc)) IN
  IF p \in DOMAIN first THEN first
  ELSE (p :> [location |-> loc,
              existed |-> isfile(files, MakefilePath(loc)),
              content |-> make_Makefile(files, loc)[p]]) @@ first

\* a call make_Makefile(loc)
CallMakefile(loc) ==
  /\ fs' = make_Makefile(fs, loc)
  /\ first' = FirstCall(fs, loc)
  /\ location' = loc

\* make_Makefile called on any location, any number of times
MakeMakefile ==
  /\ pc = "make"
  /\ \E loc \in Locations : CallMakefile(loc)
  /\ UNCHANGED <<script, tile, pc, results, idx, todo, calls, err>>

\* the Makefiles that may exist before the first call: none or one
InitialFiles(locs) ==
  {NoFiles} \cup { Resolve(MakefilePath(loc)) :> OtherText : loc \in locs }

InitMk ==
  /\ script = "utils"
  /\ tile = ""
  /\ pc = "make"
  /\ results = <<>>
  /\ idx = 0
  /\ todo = {}
  /\ calls = <<>>
  /\ err = ""
  /\ fs \in InitialFiles(Locations)
  /\ first = NoFiles
  /\ location = <<>>

NextMk == MakeMakefile

SpecMk == InitMk /\ [][NextMk]_vars

(***************************************************************************)
(* A call of make_tile_configs of configs.py.                              *)
(***************************************************************************)
Init ==
  /\ script = "configs"
  /\ tile \in TileArgs
  /\ pc = "start"
  /\ results = <<>>
  /\ idx = 0
  /\ todo = {}
  /\ calls = <<>>
  /\ err = ""
  /\ fs = NoFiles
  /\ first = NoFiles
  /\ location = <<>>

Next == make_tile_configs

Spec == Init /\ [][Next]_vars

(***************************************************************************)
(* The scripts: python configs.py <tile>, python mods_deploy.py <tile>.    *)
(***************************************************************************)
\* os.getcwd()+'/test'
workdir == <<"d", "/", "test">>

\* make_Makefile(workdir)
MainMakefile ==
  /\ pc = "main"
  /\ CallMakefile(workdir)
  /\ pc' = "start"
  /\ UNCHANGED <<script, tile, results, idx, todo, calls, err>>

InitScripts ==
  /\ script \in {"configs", "mods_deploy"}
  /\ tile \in TileArgs
  /\ pc = "main"
  /\ results = <<>>
  /\ idx = 0
  /\ todo = {}
  /\ calls = <<>>
  /\ err = ""
  /\ fs \in InitialFiles({workdir})
  /\ first = NoFiles
  /\ location = <<>>

NextScripts ==
  \/ MainMakefile
  \/ make_tile_configs
  \/ mods_make_tile_configs

SpecScripts == InitScripts /\ [][NextScripts]_vars

(***************************************************************************)
(* The bodies of MakeElliptecConfig and MakeSmarActConfig, statement by    *)
(* statement.  results holds the devices argument, todo the serial or ip   *)
(* of the call, idx the position of the loop over devices, and calls logs  *)
(* what each statement did.                                                *)
(***************************************************************************)
\* the lists the dispatcher hands over: records of one ioc_type
DeviceLists(D) == UNION { [1..n -> D] : n \in 1..MaxDevs }

\* the function called, and its serial or ip argument
ConfigFn ==
  IF results[1]["ioc_type"] = "Elliptec" THEN "MakeElliptecConfig"
  ELSE "MakeSmarActConfig"

ConfigKey == CHOOSE key \in todo : TRUE

ConfigKeyField == IF ConfigFn = "MakeElliptecConfig" THEN "ioc_serial" ELSE "ioc_ip"

\* what a statement logs
Event(kind, detail, payload) ==
  Call(ConfigFn, ConfigKey, Outcome(kind, detail, "", payload))

\* the list valid, as the appends made so far left it
validList ==
  LET appended == SelectSeq(calls, LAMBDA c : c.kind = "valid")
  IN  [i \in 1..Len(appended) |-> appended[i].payload[1]]

\* does the loop know the type of the device (every Elliptec; two SmarAct types)
Recognized(device) ==
  \/ ConfigFn = "MakeElliptecConfig"
  \/ device["type"] \in {"pcdsdevices.SmarActMotor", "pcdsdevices.SmarActTipTilt"}

\* the schema the loop validates a device of a recognized type against
DeviceSchema(device) ==
  IF ConfigFn = "MakeElliptecConfig" THEN ell_schema
  ELSE IF device["type"] = "pcdsdevices.SmarActMotor" THEN smaract_schema
  ELSE smaract_tt_schema

\* one pass of "for device in devices"
ValidateDevice ==
  /\ pc = "validate"
  /\ idx <= Len(results)
  /\ LET device == results[idx]
         schema == DeviceSchema(device)
     IN  calls' =
           IF device[ConfigKeyField] # ConfigKey THEN calls
           ELSE IF ~Recognized(device)
           THEN Append(calls, Event("unrecognized", device["name"], <<>>))
           ELSE IF IsValid(schema, device)
           THEN Append(calls, Event("valid", device["name"],
                                    <<Validated(schema, device)>>))
           ELSE Append(calls, Event("rejected", device["name"], <<>>))
  /\ idx' = idx + 1
  /\ UNCHANGED <<script, tile, pc, results, todo, err, fs, first, location>>

\* if len(valid) == 0: return 0
CheckEmpty ==
  /\ pc = "validate"
  /\ idx > Len(results)
  /\ IF Len(validList) = 0
     THEN /\ calls' = Append(calls, Event("empty", "", <<>>))
          /\ pc' = "returned"
     ELSE /\ calls' = calls
          /\ pc' = "channels"
  /\ UNCHANGED <<script, tile, results, idx, todo, err, fs, first, location>>

\* the channels of valid, and the check for duplicates among them
CheckChannels ==
  /\ pc = "channels"
  /\ LET channels == IF ConfigFn = "MakeElliptecConfig"
                     THEN EllChannels(validList)
                     ELSE SmarActChannels(validList)
     IN  IF HasDuplicates(channels)
         THEN /\ calls' = Append(calls, Event("duplicate", ConfigKey, <<>>))
              /\ pc' = "raised"
              /\ err' = "ValueError: duplicate"
         ELSE /\ calls' = Append(calls, Event("channels", "", <<>>))
              /\ pc' = "common"
              /\ err' = err
  /\ UNCHANGED <<script, tile, results, idx, todo, fs, first, location>>

\* for field in common: ... raise ValueError
CheckCommon ==
  /\ pc = "common"
  /\ IF Disagreeing(validList) # {}
     THEN /\ calls' = Append(calls, Event("field",
                                common[Min(Disagreeing(validList))], <<>>))
          /\ pc' = "raised"
          /\ err' = "ValueError: field"
     ELSE /\ calls' = Append(calls, Event("common", "", <<>>))
          /\ pc' = "write"
          /\ err' = err
  /\ UNCHANGED <<script, tile, results, idx, todo, fs, first, location>>

\* template.render(devs=devices), written to <ioc_name>.cfg
WriteConfig ==
  /\ pc = "write"
  /\ calls' = Append(calls,
                Call(ConfigFn, ConfigKey,
                     Outcome("written", "", validList[1]["ioc_name"] \o ".cfg",
                             results)))
  /\ pc' = "returned"
  /\ UNCHANGED <<script, tile, results, idx, todo, err, fs, first, location>>

\* a call of one of the two functions for a serial or ip of its list
InitConfig ==
  /\ script = "utils"
  /\ tile \in Tiles
  /\ pc = "validate"
  /\ results \in DeviceLists(ElliptecDevs) \cup DeviceLists(SmarActDevs)
  /\ idx = 1
  /\ \E device \in Range(results) :
       todo = {IF device["ioc_type"] = "Elliptec" THEN device["ioc_serial"]
               ELSE device["ioc_ip"]}
  /\ calls = <<>>
  /\ err = ""
  /\ fs = NoFiles
  /\ first = NoFiles
  /\ location = <<>>

NextConfig ==
  \/ ValidateDevice
  \/ CheckEmpty
  \/ CheckChannels
  \/ CheckCommon
  \/ WriteConfig

SpecConfig == InitConfig /\ [][NextConfig]_vars

(***************************************************************************)
(* Vocabulary of the properties.                                           *)
(***************************************************************************)
Aggregated == {"Elliptec", "SmarAct"}

FnOf(type) ==
  CASE type = "Elliptec" -> "MakeElliptecConfig"
    [] type = "SmarAct" -> "MakeSmarActConfig"
    [] type = "Qmini" -> "MakeQminiConfig"
    [] type = "BaslerGigE" -> "MakeBaslerConfig"
    [] type = "ThorlabsWfs40" -> "MakeThorlabsWfsConfig"

SchemaOf(type) ==
  CASE type = "Qmini" -> qmini_schema
    [] type = "BaslerGigE" -> basler_schema
    [] type = "ThorlabsWfs40" -> thorlabs_wfs_schema

KeyField(type) == IF type = "Elliptec" THEN "ioc_serial" ELSE "ioc_ip"

\* the records of a type in the query's result, and their controllers
TypeDevs(type) == DevsOfType(results, type)

Keys(type) == Range(Column(TypeDevs(type), KeyField(type)))

\* the four fields every record of a controller is to agree on
SharedFields == {"ioc_release", "ioc_base", "ioc_arch", "ioc_name"}

\* does the record pass the schema of its type (for SmarAct: of its subtype)
SchemaValid(d) ==
  CASE d["ioc_type"] = "Elliptec" -> IsValid(ell_schema, d)
    [] d["ioc_type"] = "SmarAct" ->
         \/ d["type"] = "pcdsdevices.SmarActMotor" /\ IsValid(smaract_schema, d)
         \/ d["type"] = "pcdsdevices.SmarActTipTilt" /\ IsValid(smaract_tt_schema, d)
    [] OTHER -> IsValid(SchemaOf(d["ioc_type"]), d)

\* the records of one controller, and those of them that are valid
GroupOf(type, key) == SelectSeq(TypeDevs(type), LAMBDA d : d[KeyField(type)] = key)

ValidOf(type, key) == SelectSeq(GroupOf(type, key), SchemaValid)

\* the channel identifiers of a valid record: one, or tip and tilt
ChannelIds(d) ==
  IF d["type"] = "pcdsdevices.SmarActTipTilt"
  THEN <<d["ioc_tip_channel"], d["ioc_tilt_channel"]>>
  ELSE <<d["ioc_channel"]>>

RECURSIVE AllChannelIds(_)
AllChannelIds(valid) ==
  IF valid = <<>> THEN <<>> ELSE ChannelIds(Head(valid)) \o AllChannelIds(Tail(valid))

DuplicateChannel(type, key) == HasDuplicates(AllChannelIds(ValidOf(type, key)))

FieldConflict(type, key) ==
  LET valid == ValidOf(type, key) IN
  \E i, j \in DOMAIN valid : \E f \in SharedFields : valid[i][f] # valid[j][f]

Conflict(type, key) == DuplicateChannel(type, key) \/ FieldConflict(type, key)

HasConflict(type) == type \in Aggregated /\ \E key \in Keys(type) : Conflict(type, key)

\* the calls made for a type, and the files written for it
CallsOf(type) == SelectSeq(calls, LAMBDA c : c.fn = FnOf(type))

WrittenFor(type, key) ==
  \E i \in DOMAIN calls :
    calls[i].fn = FnOf(type) /\ calls[i].key = key /\ calls[i].kind = "written"

NoFileFor(type) == \A i \in DOMAIN calls : calls[i].fn = FnOf(type) => calls[i].kind # "written"

Position(type) == CHOOSE n \in DOMAIN dev_map : dev_map[n] = type

TypesOf(rs) == Range(Column(rs, "ioc_type"))

\* the run of make_tile_configs has ended
Ended == pc \in {"done", "raised"}

\* the dispatcher of configs.py is past the type
Finished(type) ==
  /\ script = "configs"
  /\ pc \in {"done", "loop", "serials", "ips", "raised"}
  /\ (pc = "done" \/ idx > Position(type))

\* every record of the type is valid and no controller of it has a conflict
Clean(type) ==
  /\ Len(TypeDevs(type)) > 0
  /\ ~HasConflict(type)
  /\ IF type \in Aggregated
     THEN \A key \in Keys(type) : ValidOf(type, key) = GroupOf(type, key)
     ELSE \A i \in DOMAIN TypeDevs(type) : SchemaValid(TypeDevs(type)[i])

\* every file the type is to produce has been written
ExpectedFiles(type) ==
  IF type \in Aggregated
  THEN \A key \in Keys(type) : WrittenFor(type, key)
  ELSE \A i \in DOMAIN TypeDevs(type) : WrittenFor(type, TypeDevs(type)[i]["name"])

(***************************************************************************)
(* C1.  Isolation across device types: when a run has ended and some type  *)
(* A of the query's result has a controller conflict, every other type B   *)
(* of the result whose records are all valid and conflict-free has its     *)
(* files written, wherever A and B stand in the dispatcher's order.        *)
(***************************************************************************)
C1_Isolation ==
  (script = "configs" /\ Ended) =>
    \A A, B \in TypesOf(results) :
      (A # B /\ HasConflict(A) /\ Clean(B)) => ExpectedFiles(B)

(***************************************************************************)
(* C2.  Zero output on conflict: if a controller group of an aggregated    *)
(* type has a duplicate channel or a disagreeing shared field, no file is  *)
(* written for any controller of that type.                                *)
(***************************************************************************)
C2_ZeroOutputOnConflict ==
  script = "configs" =>
    \A type \in Aggregated : HasConflict(type) => NoFileFor(type)

(***************************************************************************)
(* C3.  Elliptec duplicate-channel detection: a call of MakeElliptecConfig *)
(* for a serial that has two schema-valid records with the same            *)
(* ioc_channel raises the duplicate ValueError and writes no file,         *)
(* whatever else the group holds.                                          *)
(***************************************************************************)
\* two schema-valid Elliptec records of the serial with identical channels
SameChannelTwice(serial) ==
  LET ds == TypeDevs("Elliptec") IN
  \E i, j \in DOMAIN ds :
    /\ i # j
    /\ ds[i]["ioc_serial"] = serial /\ ds[j]["ioc_serial"] = serial
    /\ IsValid(ell_schema, ds[i]) /\ IsValid(ell_schema, ds[j])
    /\ ds[i]["ioc_channel"] = ds[j]["ioc_channel"]

C3_ElliptecDuplicateChannel ==
  \A i \in DOMAIN calls :
    (calls[i].fn = "MakeElliptecConfig" /\ SameChannelTwice(calls[i].key)) =>
      /\ calls[i].kind = "duplicate"
      /\ calls[i].detail = calls[i].key
      /\ calls[i].filename = ""
      /\ pc = "raised"
      /\ err = "ValueError: duplicate"
      /\ ~WrittenFor("Elliptec", calls[i].key)

\* a duplicate was raised for a group that also holds a rejected record
C3_Witness ==
  /\ pc = "raised"
  /\ \E i \in DOMAIN calls :
       /\ calls[i].fn = "MakeElliptecConfig"
       /\ SameChannelTwice(calls[i].key)
       /\ \E n \in DOMAIN results :
            /\ results[n]["ioc_type"] = "Elliptec"
            /\ results[n]["ioc_serial"] = calls[i].key
            /\ ~IsValid(ell_schema, results[n])

(***************************************************************************)
(* C4.  SmarAct multi-channel uniqueness: whenever MakeSmarActConfig       *)
(* writes a file, the channel identifiers of the validated records of its  *)
(* group (ioc_channel of a single-axis record, ioc_tip_channel and         *)
(* ioc_tilt_channel of a tip-tilt record) are pairwise distinct.           *)
(***************************************************************************)
C4_SmarActChannelsDistinct ==
  \A i \in DOMAIN calls :
    (calls[i].fn = "MakeSmarActConfig" /\ calls[i].kind = "written") =>
      ~DuplicateChannel("SmarAct", calls[i].key)

(***************************************************************************)
(* C5.  Field-agreement detection, for both aggregated types: a call for a *)
(* group in which two validated records differ in ioc_release, ioc_base,   *)
(* ioc_arch or ioc_name fails and writes no file; a call for a group whose *)
(* validated records agree on the four fields never fails on a field, and  *)
(* writes the file unless a channel is assigned twice.                     *)
(***************************************************************************)
C5_FieldAgreement ==
  \A i \in DOMAIN calls : \A type \in Aggregated :
    (calls[i].fn = FnOf(type) /\ Len(ValidOf(type, calls[i].key)) > 0) =>
      IF FieldConflict(type, calls[i].key)
      THEN /\ calls[i].kind \in {"field", "duplicate"}
           /\ calls[i].filename = ""
           /\ pc = "raised"
      ELSE /\ calls[i].kind \in {"written", "duplicate"}
           /\ calls[i].kind = "duplicate" => DuplicateChannel(type, calls[i].key)

\* a file was written for a group in which two validated records differ in a
\* field outside the four
C5_Witness ==
  \E i \in DOMAIN calls : \E type \in Aggregated :
    /\ calls[i].fn = FnOf(type)
    /\ calls[i].kind = "written"
    /\ LET valid == ValidOf(type, calls[i].key) IN
       \E m, n \in DOMAIN valid : valid[m]["ioc_alias"] # valid[n]["ioc_alias"]

(***************************************************************************)
(* C6.  Validation failure is recoverable: only a conflict among validated *)
(* records makes a call raise; once the dispatcher is past a type without  *)
(* an exception, every schema-valid record of a one-file-per-device type   *)
(* has its file, every rejected one has none, and every controller group   *)
(* with at least one valid record has its file.                            *)
(***************************************************************************)
C6_ValidationRecoverable ==
  /\ \A i \in DOMAIN calls : \A type \in Aggregated :
       (calls[i].fn = FnOf(type) /\ Raised(calls[i])) => Conflict(type, calls[i].key)
  /\ \A type \in Range(dev_map) :
       (Finished(type) /\ (pc = "raised" => dev_map[idx] # type)) =>
         IF type \in Aggregated
         THEN \A key \in Keys(type) :
                Len(ValidOf(type, key)) > 0 => WrittenFor(type, key)
         ELSE \A n \in DOMAIN TypeDevs(type) :
                LET d == TypeDevs(type)[n] IN
                IF SchemaValid(d)
                THEN \E i \in DOMAIN calls :
                       /\ calls[i].fn = FnOf(type)
                       /\ calls[i].kind = "written"
                       /\ calls[i].filename = d["ioc_name"] \o ".cfg"
                       /\ calls[i].payload = <<d>>
                ELSE \E i \in DOMAIN calls :
                       /\ calls[i].fn = FnOf(type)
                       /\ calls[i].key = d["name"]
                       /\ calls[i].kind = "rejected"

\* a run ended normally that wrote the file of a controller group holding a
\* rejected record and rejected a record of a one-file-per-device type
C6_Witness ==
  /\ pc = "done"
  /\ \E type \in Aggregated : \E key \in Keys(type) :
       /\ WrittenFor(type, key)
       /\ Len(ValidOf(type, key)) < Len(GroupOf(type, key))
  /\ \E i, j \in DOMAIN calls :
       /\ i < j
       /\ calls[i].kind = "written"
       /\ calls[j].kind = "rejected"

(***************************************************************************)
(* C7.  Aggregate payload contents: the payload handed to the renderer for *)
(* one controller is the list of the records of that controller, in the    *)
(* order of the input, and holds no record of another controller.          *)
(***************************************************************************)
C7_PayloadIsGroup ==
  \A i \in DOMAIN calls : \A type \in Aggregated :
    (calls[i].fn = FnOf(type) /\ calls[i].kind = "written") =>
      calls[i].payload = GroupOf(type, calls[i].key)

(***************************************************************************)
(* C8.  Empty filter is a skip, not an error: in both dispatchers, a type  *)
(* of dev_map with no matching record raises nothing, gets no file, and    *)
(* the loop goes on to the next type.                                      *)
(***************************************************************************)
\* the records the loop's current iteration matched
Matched == IF script = "configs" THEN devs ELSE mods_devs

C8_EmptyFilterIsSkip ==
  /\ (pc = "raised" /\ idx > 0) => Len(Matched) > 0
  /\ script = "configs" =>
       \A type \in Range(dev_map) : Len(TypeDevs(type)) = 0 => CallsOf(type) = <<>>

(***************************************************************************)
(* C9.  Unknown target is fatal with no output: a run of a script for a    *)
(* tile that is not recognized makes no query, starts no pipeline and      *)
(* creates or modifies no file.                                            *)
(***************************************************************************)
C9_UnknownTileNoOutput ==
  tile \notin Tiles =>
    /\ pc \in {"main", "start", "raised"}
    /\ results = <<>>
    /\ calls = <<>>
    /\ pc = "raised" => \A p \in DOMAIN fs : fs[p] = OtherText

(***************************************************************************)
(* C10.  Idempotent bootstrap file: make_Makefile writes the three lines   *)
(* only where no Makefile exists; after any number of calls, with or       *)
(* without trailing separators, the file is as the first call left it, and *)
(* a Makefile that existed before is as it was.                            *)
(***************************************************************************)
C10_MakefileIdempotent ==
  \A p \in DOMAIN first :
    /\ p \in DOMAIN fs
    /\ fs[p] = first[p].content
    /\ first[p].content = IF first[p].existed THEN OtherText ELSE MakefileText
    /\ p = Resolve(StripSlashes(first[p].location) \o <<"/", "Makefile">>)

\* a later call, with another number of trailing separators, found the
\* Makefile an earlier call wrote, and some call found a foreign Makefile
C10_Witness ==
  /\ \E p \in DOMAIN first :
       /\ ~first[p].existed
       /\ first[p].location # location
       /\ Len(location) > 0 /\ location[Len(location)] = "/"
       /\ p = Resolve(MakefilePath(location))
  /\ \E q \in DOMAIN first : first[q].existed

(***************************************************************************)
(* C11.  One file per controller/device: when a run of make_tile_configs   *)
(* has ended normally and no controller group has a conflict, the files    *)
(* written stand one-to-one to the payloads emitted: no two writes of the  *)
(* run go to the same <ioc_name>.cfg, so no payload's file is overwritten  *)
(* by another payload.                                                     *)
(***************************************************************************)
\* the run ended normally, the query returned every device once, and no
\* aggregated type had a conflict
RunWithoutConflicts ==
  /\ script = "configs"
  /\ pc = "done"
  /\ \A m, n \in DOMAIN results : m # n => results[m]["name"] # results[n]["name"]
  /\ \A type \in Aggregated : ~HasConflict(type)

C11_OneFilePerPayload ==
  RunWithoutConflicts =>
    \A i, j \in DOMAIN calls :
      (i # j /\ calls[i].kind = "written" /\ calls[j].kind = "written") =>
        calls[i].filename # calls[j].filename

(***************************************************************************)
(* C12.  Empty validated group: for an aggregated type, the call for a     *)
(* controller group in which no record passes validation (for SmarAct,     *)
(* also a record of an unrecognized subtype) writes no file and raises     *)
(* nothing, the loop over the controllers goes on after it, and once the   *)
(* type is done every other group of it has been called, and has its file  *)
(* when it holds a valid record and the type has no conflict.              *)
(***************************************************************************)
\* no record of the controller's group survives validation
EmptyGroup(type, key) == key \in Keys(type) /\ Len(ValidOf(type, key)) = 0

\* the call number i is the call of the type for the controller
CallFor(i, type, key) == calls[i].fn = FnOf(type) /\ calls[i].key = key

C12_EmptyValidatedGroup ==
  script = "configs" =>
    \A type \in Aggregated : \A key \in Keys(type) :
      EmptyGroup(type, key) =>
        /\ \A i \in DOMAIN calls :
             CallFor(i, type, key) =>
               /\ calls[i].kind = "empty"
               /\ calls[i].filename = ""
               /\ i = Len(calls) =>
                    /\ pc # "raised"
                    /\ err = ""
                    /\ todo # {} => pc \in {"serials", "ips"}
        /\ (Finished(type) /\ (pc = "raised" => dev_map[idx] # type)) =>
             \A other \in Keys(type) :
               /\ \E i \in DOMAIN calls : CallFor(i, type, other)
               /\ (other # key /\ Len(ValidOf(type, other)) > 0
                     /\ ~HasConflict(type)) => WrittenFor(type, other)

\* a run ended normally in which the file of an Elliptec controller was
\* written after the call for an empty group, and the group of a SmarAct
\* record of an unrecognized subtype was called
C12_Witness ==
  /\ pc = "done"
  /\ \E i, j \in DOMAIN calls : \E key \in Keys("Elliptec") :
       /\ i < j
       /\ EmptyGroup("Elliptec", key)
       /\ CallFor(i, "Elliptec", key)
       /\ calls[j].fn = "MakeElliptecConfig" /\ calls[j].kind = "written"
  /\ \E i \in DOMAIN calls : \E n \in DOMAIN results :
       /\ results[n]["ioc_type"] = "SmarAct"
       /\ results[n]["type"] \notin
            {"pcdsdevices.SmarActMotor", "pcdsdevices.SmarActTipTilt"}
       /\ EmptyGroup("SmarAct", results[n]["ioc_ip"])
       /\ CallFor(i, "SmarAct", results[n]["ioc_ip"])

(***************************************************************************)
(* C13.  Pipeline ordering per controller group: in a call of              *)
(* MakeElliptecConfig or MakeSmarActConfig the file is written only after  *)
(* every member record of the group has gone through validation and the    *)
(* uniqueness check and the agreement check have both passed over the      *)
(* records that survived validation; no write precedes, or happens         *)
(* despite, a failed check of the group.                                   *)
(***************************************************************************)
\* the statements logged before statement number w
Before(w) == SubSeq(calls, 1, w - 1)

\* how many of the statements logged before w are of one of the kinds
CountBefore(w, kinds) == Len(SelectSeq(Before(w), LAMBDA c : c.kind \in kinds))

C13_PipelineOrdering ==
  script = "utils" =>
    \A w \in DOMAIN calls :
      calls[w].kind = "written" =>
        LET type == results[1]["ioc_type"]
            key == calls[w].key
        IN  /\ w = Len(calls)
            /\ CountBefore(w, {"valid", "rejected", "unrecognized"})
                 = Len(GroupOf(type, key))
            /\ CountBefore(w, {"valid"}) = Len(ValidOf(type, key))
            /\ CountBefore(w, {"channels"}) = 1
            /\ CountBefore(w, {"common"}) = 1
            /\ CountBefore(w, {"duplicate", "field", "empty"}) = 0
            /\ ~DuplicateChannel(type, key)
            /\ ~FieldConflict(type, key)

(***************************************************************************)
(* C14.  Case-consistent channel uniqueness for Elliptec: the schema       *)
(* accepts an ioc_channel whatever the case of its letter, and whenever    *)
(* MakeElliptecConfig writes a file, the ioc_channel values of the         *)
(* validated records of the group are pairwise distinct when compared      *)
(* without regard to case ('a' and 'A' on one serial are a duplicate).     *)
(***************************************************************************)
\* the channels of the valid records of a serial, in lower case
LowerChannels(serial) ==
  LET valid == ValidOf("Elliptec", serial)
  IN  [i \in DOMAIN valid |-> Lower(valid[i]["ioc_channel"])]

C14_CaseConsistentChannels ==
  /\ \A n \in DOMAIN results :
       Accepts(ell_schema["ioc_channel"], results[n]["ioc_channel"])
         <=> Accepts(ell_schema["ioc_channel"], Lower(results[n]["ioc_channel"]))
  /\ \A i \in DOMAIN calls :
       (calls[i].fn = "MakeElliptecConfig" /\ calls[i].kind = "written") =>
         ~HasDuplicates(LowerChannels(calls[i].key))

=============================================================================
